---- MODULE Spec2Model ----
(***************************************************************************)
(* Verification model of the funding-carry strategy engine                 *)
(* (src/src/strategy.py, class FundingStrategy).                           *)
(*                                                                         *)
(* Number representation.  The program computes in float64; the model      *)
(* computes in fixed point, every division rounding down:                  *)
(*   - stocks (allocations, notionals, loans, capital) in whole USD;       *)
(*   - prices in USD per share, shares in whole shares;                    *)
(*   - rates (benchmark, spreads, funding, APRs) in 1e-4 (basis points),   *)
(*     percentages (split, safety factor, margin ratios) in 1e-2,          *)
(*     leverage caps in 1e-1;                                              *)
(*   - flows (execution cost, funding income, interest) and total_equity,  *)
(*     which accumulates them, in cents: USD * bp / 100 = cents.           *)
(*                                                                         *)
(* Float rounding.  Three comparisons of run compare a quotient with a     *)
(* bound that the quotient equals in exact arithmetic: at a safety factor  *)
(* of 100% the target is ibkr_allocation * 6.6 or hl_allocation * 20, so   *)
(* target / ibkr_allocation is 6.6, or target / hl_allocation is 20, up to *)
(* rounding, and right after a rebalance to hl_allocation * 20 the ratio   *)
(* hl_allocation / position_val is 0.05 up to rounding.  In                *)
(* float64 either comparison comes out on one side or the other depending  *)
(* on the operands (e.g. 300000 * 0.7 * 6.6 / (300000 * 0.7) > 6.6).  The  *)
(* model leaves the outcome of such a tie open, and remembers it per       *)
(* operands: the same operands always compare the same way.                *)
(***************************************************************************)
EXTENDS Integers, Sequences, FiniteSets, TLC

VARIABLES
    self,           \* the FundingStrategy object: its four configuration fields
    df,             \* the caller's input table (sequence of rows)
    work,           \* run's private copy of the table (df.copy(), line 69)
    i,              \* position of the for loop in work (1-based)
    total_equity,   \* local of run, cents
    shares,         \* local of run
    results,        \* local of run: the rows appended so far / the returned table
    pc,             \* "idle", "loop", "break", "returned"
    prev,           \* the table returned by the previous call of run on this object
    runs,           \* number of calls of run that have returned
    fp,             \* how float rounding decided the ties met so far, per operands
    loan_amount,    \* argument of a direct call of _calc_tiered_interest
    cost,           \* its return value (cents per hour), -1 before the call
    metrics,        \* return value of get_metrics, NotCalled before the call
    opt,            \* the OptimizationEngine object: capital, benchmark_rate
    cell,           \* run_grid_search: number of (lev, split) combinations done
    grid_results,   \* run_grid_search: local results / the returned table
    sim,            \* run_grid_search: locals s, r, m of the last combination
    ranker,         \* the AssetRanker object and the arguments of run_ranking
    tk,             \* run_ranking: position of the for loop in ticker_list
    ranked,         \* run_ranking: local results
    errors,         \* run_ranking: local errors
    ranking         \* run_ranking: the returned value, NotCalled before the call

grid_vars == <<opt, cell, grid_results, sim>>
rank_vars == <<ranker, tk, ranked, errors, ranking>>

vars == <<self, df, work, i, total_equity, shares, results, pc, prev, runs,
          fp, loan_amount, cost, metrics, grid_vars, rank_vars>>

---------------------------------------------------------------------------
\* Bounds of the model

MaxRows == 3
MaxRuns == 2
MaxLoanSteps == 10

---------------------------------------------------------------------------
\* Program constants

cost_bps == 12
ibkr_max_lev == 66
hl_max_lev == 20
hl_maint_margin == 5
ibkr_maint_margin == 10
drift_tolerance == 10
Tier1Max == 100000
Tier2Width == 900000
Tier2Max == 1000000
Tier1Spread == 150
Tier2Spread == 100
Tier3Spread == 75
DaysPerYear == 365
HoursPerDay == 24
HourMs == 3600000

---------------------------------------------------------------------------
\* Fixed-point arithmetic

Min(a, b) == IF a <= b THEN a ELSE b
Max(a, b) == IF a >= b THEN a ELSE b
Abs(a) == IF a >= 0 THEN a ELSE 0 - a

\* <<q, r>> with a * b = q * d + r and 0 <= r < d, for b >= 0 and d > 0,
\* computed by doubling so that no intermediate value leaves 32 bits.
RECURSIVE MulQR(_, _, _)
MulQR(a, b, d) ==
    IF b = 0 THEN <<0, 0>>
    ELSE LET h  == MulQR(a, b \div 2, d)
             q2 == 2 * h[1] + (2 * h[2]) \div d
             r2 == (2 * h[2]) % d
         IN IF b % 2 = 0 THEN <<q2, r2>>
            ELSE <<q2 + (a \div d) + (r2 + (a % d)) \div d, (r2 + (a % d)) % d>>

\* floor(a * b / d) for d > 0: the float expression a * b / d in fixed point.
\* Split at d when the partial products fit 32 bits, by doubling otherwise.
MulDiv(a, b, d) ==
    IF b < 0 THEN MulQR(0 - a, 0 - b, d)[1]
    ELSE IF b <= 2147483647 \div d
    THEN (a \div d) * b + ((a % d) * b) \div d
    ELSE MulQR(a, b, d)[1]

---------------------------------------------------------------------------
\* FundingStrategy: pure helpers

\* pd.to_datetime(timestamp, unit='ms'): the integer millisecond count becomes
\* a Timestamp value (an instant, no longer a number)
to_datetime(timestamp) == [epoch_ms |-> timestamp]

\* df.copy() followed by the conditional datetime column
CopyWithDatetime(table) ==
    [k \in 1..Len(table) |->
        IF "datetime" \in DOMAIN table[k] THEN table[k]
        ELSE [datetime  |-> to_datetime(table[k].timestamp),
              timestamp |-> table[k].timestamp,
              price     |-> table[k].price,
              funding   |-> table[k].funding]]

\* Variant of CallerTable: no df.copy(), the column lands in the caller's table
CallerTableInPlace(table, copy) == copy

\* What the caller's table holds after run has prepared its own: df.copy()
\* makes the new column land in the copy only
CallerTable(table, copy) == table

_calculate_max_safe_notional(hl_allocation, ibkr_allocation) ==
    LET max_hl_notional   == hl_allocation * hl_max_lev
        max_ibkr_notional == MulDiv(ibkr_allocation, ibkr_max_lev, 10)
    IN Min(max_hl_notional, max_ibkr_notional)

\* Variants of _calc_tiered_interest: the second tier capped at 1,000,000
\* instead of 900,000, and the whole loan charged at the rate of its tier
TieredInterestWideTier2(benchmark_rate, loan) ==
    IF loan <= 0 THEN 0
    ELSE LET c1 == MulDiv(Min(loan, Tier1Max), benchmark_rate + Tier1Spread, 100)
             c2 == IF loan > Tier1Max
                   THEN MulDiv(Min(loan - Tier1Max, Tier2Max),
                               benchmark_rate + Tier2Spread, 100)
                   ELSE 0
             c3 == IF loan > Tier2Max
                   THEN MulDiv(loan - Tier2Max, benchmark_rate + Tier3Spread, 100)
                   ELSE 0
         IN ((c1 + c2 + c3) \div DaysPerYear) \div HoursPerDay

TieredInterestFlat(benchmark_rate, loan) ==
    IF loan <= 0 THEN 0
    ELSE LET spread == IF loan > Tier2Max THEN Tier3Spread
                       ELSE IF loan > Tier1Max THEN Tier2Spread
                       ELSE Tier1Spread
         IN (MulDiv(loan, benchmark_rate + spread, 100) \div DaysPerYear)
                \div HoursPerDay

\* Hourly interest (cents) on a loan (USD) at benchmark_rate (bp)
_calc_tiered_interest(benchmark_rate, loan) ==
    IF loan <= 0 THEN 0
    ELSE LET t1_amt == Min(loan, Tier1Max)
             c1 == MulDiv(t1_amt, benchmark_rate + Tier1Spread, 100)
             c2 == IF loan > Tier1Max
                   THEN MulDiv(Min(loan - Tier1Max, Tier2Width),
                               benchmark_rate + Tier2Spread, 100)
                   ELSE 0
             c3 == IF loan > Tier2Max
                   THEN MulDiv(loan - Tier2Max, benchmark_rate + Tier3Spread, 100)
                   ELSE 0
         IN ((c1 + c2 + c3) \div DaysPerYear) \div HoursPerDay

\* Variant of _fail_row: the price zeroed with the other columns
FailRowPriceZeroed(row, reason) ==
    [datetime |-> row.datetime, price |-> 0,
     total_equity |-> 0, hl_equity |-> 0, ibkr_equity |-> 0,
     position_usd |-> 0, ibkr_loan |-> 0,
     net_spread_apr |-> 0, funding_apr |-> 0, fail_reason |-> reason]

_fail_row(row, reason) ==
    [datetime |-> row.datetime, price |-> row.price,
     total_equity |-> 0, hl_equity |-> 0, ibkr_equity |-> 0,
     position_usd |-> 0, ibkr_loan |-> 0,
     net_spread_apr |-> 0, funding_apr |-> 0, fail_reason |-> reason]

---------------------------------------------------------------------------
\* FundingStrategy.run: the steps of one loop iteration

\* Variant of ibkr_alloc: the IBKR leg gets the HL share of the pool
IbkrAllocHlShare(cfg, equity) == MulDiv(equity, cfg.hl_split_pct, 10000)

\* 1. allocation of the unified pool (cents) to the venues (USD)
hl_alloc(cfg, equity) == MulDiv(equity, cfg.hl_split_pct, 10000)
ibkr_alloc(cfg, equity) == MulDiv(equity, 100 - cfg.hl_split_pct, 10000)

\* 2. target notional
target_of(cfg, equity) ==
    MulDiv(_calculate_max_safe_notional(hl_alloc(cfg, equity), ibkr_alloc(cfg, equity)),
           cfg.safety_factor, 100)

\* Variant of PreTradeCheck: the HL leg is not checked
PreTradeCheckIbkrOnly(hl_allocation, ibkr_allocation, target_notional, ibkr_lev_above, hl_lev_above) ==
    IF ibkr_allocation > 0
       /\ (target_notional * 10 > ibkr_max_lev * ibkr_allocation \/ ibkr_lev_above)
    THEN "IBKR Margin Call (Lev > 6.6x)"
    ELSE ""

\* 3. pre-trade solvency checks: the failure reason, "" when both pass.
\* ibkr_lev_above, hl_lev_above: the float quotient of a tie came out above
\* the cap.
PreTradeCheck(hl_allocation, ibkr_allocation, target_notional, ibkr_lev_above, hl_lev_above) ==
    IF ibkr_allocation > 0
       /\ (target_notional * 10 > ibkr_max_lev * ibkr_allocation \/ ibkr_lev_above)
    THEN "IBKR Margin Call (Lev > 6.6x)"
    ELSE IF hl_allocation > 0
            /\ (target_notional > hl_max_lev * hl_allocation \/ hl_lev_above)
    THEN "HL Max Leverage Exceeded (>20x)"
    ELSE ""

\* target_notional / hl_allocation is hl_max_lev in exact arithmetic
HlLevTie(cfg, hl_allocation, ibkr_allocation) ==
    /\ cfg.safety_factor = 100
    /\ hl_allocation > 0
    /\ hl_allocation * hl_max_lev <= MulDiv(ibkr_allocation, ibkr_max_lev, 10)

\* target_notional / ibkr_allocation is ibkr_max_lev in exact arithmetic
LevTie(cfg, hl_allocation, ibkr_allocation) ==
    /\ cfg.safety_factor = 100
    /\ ibkr_allocation > 0
    /\ MulDiv(ibkr_allocation, ibkr_max_lev, 10) <= hl_allocation * hl_max_lev

\* Variant of Rebalances: a drift of exactly the tolerance trades too
RebalancesAtTolerance(sh, price, target_notional) ==
    LET current_notional == IF sh > 0 THEN sh * price ELSE 0
    IN IF target_notional > 0
       THEN 100 * Abs(current_notional - target_notional)
                >= drift_tolerance * target_notional
       ELSE TRUE

\* Variant of Rebalances: a band of twice the tolerance
RebalancesWideBand(sh, price, target_notional) ==
    LET current_notional == IF sh > 0 THEN sh * price ELSE 0
    IN IF target_notional > 0
       THEN 100 * Abs(current_notional - target_notional)
                > 2 * drift_tolerance * target_notional
       ELSE TRUE

\* 4. execution: whether the drift rule trades, and the state after it
Rebalances(sh, price, target_notional) ==
    LET current_notional == IF sh > 0 THEN sh * price ELSE 0
    IN IF target_notional > 0
       THEN 100 * Abs(current_notional - target_notional)
                > drift_tolerance * target_notional
       ELSE TRUE

\* Variant of Execute: the trade is not charged
ExecuteNoFee(equity, sh, price, target_notional) ==
    IF Rebalances(sh, price, target_notional)
    THEN [total_equity |-> equity, shares |-> target_notional \div price]
    ELSE [total_equity |-> equity, shares |-> sh]

Execute(equity, sh, price, target_notional) ==
    IF Rebalances(sh, price, target_notional)
    THEN LET target_shares == target_notional \div price
             diff_shares   == Abs(target_shares - sh)
             trade_cost    == MulDiv(diff_shares * price, cost_bps, 100)
         IN [total_equity |-> equity - trade_cost, shares |-> target_shares]
    ELSE [total_equity |-> equity, shares |-> sh]

\* Variant of MaintenanceCheck: the two margins exchanged
MaintenanceCheckSwapped(hl_allocation, ibkr_allocation, position_val, hl_ratio_below) ==
    IF position_val > 0
       /\ (100 * hl_allocation < ibkr_maint_margin * position_val \/ hl_ratio_below)
    THEN "HL Liquidation (Equity < 5%)"
    ELSE IF position_val > 0 /\ 100 * ibkr_allocation < hl_maint_margin * position_val
    THEN "IBKR Margin Call (Equity < 10%)"
    ELSE ""

\* Variant of MaintenanceCheck: no guard on the position, an hour without a
\* position fails the HL check
MaintenanceCheckUnguarded(hl_allocation, ibkr_allocation, position_val, hl_ratio_below) ==
    IF position_val <= 0
       \/ 100 * hl_allocation < hl_maint_margin * position_val \/ hl_ratio_below
    THEN "HL Liquidation (Equity < 5%)"
    ELSE IF 100 * ibkr_allocation < ibkr_maint_margin * position_val
    THEN "IBKR Margin Call (Equity < 10%)"
    ELSE ""

\* 8. maintenance checks: the failure reason, "" when both pass.
\* hl_ratio_below: the float quotient of a tie came out below the margin.
MaintenanceCheck(hl_allocation, ibkr_allocation, position_val, hl_ratio_below) ==
    IF position_val > 0
       /\ (100 * hl_allocation < hl_maint_margin * position_val \/ hl_ratio_below)
    THEN "HL Liquidation (Equity < 5%)"
    ELSE IF position_val > 0 /\ 100 * ibkr_allocation < ibkr_maint_margin * position_val
    THEN "IBKR Margin Call (Equity < 10%)"
    ELSE ""

\* hl_allocation / position_val is hl_maint_margin in exact arithmetic: the
\* position was just set to hl_allocation * hl_max_lev
MaintTie(cfg, hl_allocation, ibkr_allocation, rebalanced, position_val) ==
    /\ rebalanced
    /\ cfg.safety_factor = 100
    /\ position_val > 0
    /\ hl_allocation * hl_max_lev <= MulDiv(ibkr_allocation, ibkr_max_lev, 10)

\* Variants of Breaks: a break on every path, none after a failure row, and
\* none on the equity test
BreaksAlways(failed, equity) == TRUE
BreaksNotAfterFailure(failed, equity) == ~failed /\ equity <= 0
BreaksOnFailureOnly(failed, equity) == failed

\* whether the loop is left after the iteration's row: break after a failure
\* row, and the equity test after a recorded row
Breaks(failed, equity) == failed \/ equity <= 0

\* One iteration on `row`: the row appended, the locals after it, whether the
\* loop is left, and the ties whose rounding (fr) the iteration consulted
LoopBody(cfg, equity, sh, row, fr) ==
    LET price   == row.price
        funding == row.funding
        hl_allocation   == hl_alloc(cfg, equity)
        ibkr_allocation == ibkr_alloc(cfg, equity)
        target_notional == target_of(cfg, equity)
        lev_tie  == LevTie(cfg, hl_allocation, ibkr_allocation)
        lev_seen == IF lev_tie
                    THEN {<<<<"lev", target_notional, ibkr_allocation>>, fr.lev_above>>}
                    ELSE {}
        \* the HL quotient is computed only when the IBKR check has passed
        hl_tie   == /\ HlLevTie(cfg, hl_allocation, ibkr_allocation)
                    /\ PreTradeCheck(hl_allocation, ibkr_allocation, target_notional,
                                     lev_tie /\ fr.lev_above, FALSE)
                           # "IBKR Margin Call (Lev > 6.6x)"
        pre_seen == lev_seen \cup
                    (IF hl_tie
                     THEN {<<<<"hl", target_notional, hl_allocation>>, fr.hl_above>>}
                     ELSE {})
        pre == PreTradeCheck(hl_allocation, ibkr_allocation, target_notional,
                             lev_tie /\ fr.lev_above, hl_tie /\ fr.hl_above)
    IN IF pre # ""
       THEN [row |-> _fail_row(row, pre), total_equity |-> equity, shares |-> sh,
             brk |-> Breaks(TRUE, equity), ties |-> pre_seen]
       ELSE
       LET ex == Execute(equity, sh, price, target_notional)
           position_val    == ex.shares * price
           ibkr_loan       == Max(0, position_val - ibkr_allocation)
           hourly_interest == _calc_tiered_interest(cfg.benchmark_rate, ibkr_loan)
           fund_income     == MulDiv(position_val, funding, 100)
           net_pnl         == fund_income - hourly_interest
           equity2         == ex.total_equity + net_pnl
           maint_tie == MaintTie(cfg, hl_allocation, ibkr_allocation,
                                 Rebalances(sh, price, target_notional), position_val)
           seen == pre_seen \cup
                   (IF maint_tie
                    THEN {<<<<"maint", hl_allocation, position_val>>, fr.maint_below>>}
                    ELSE {})
           post == MaintenanceCheck(hl_allocation, ibkr_allocation, position_val,
                                    maint_tie /\ fr.maint_below)
       IN IF post # ""
          THEN [row |-> _fail_row(row, post), total_equity |-> equity2,
                shares |-> ex.shares, brk |-> Breaks(TRUE, equity2), ties |-> seen]
          ELSE [row |-> [datetime       |-> row.datetime,
                         price          |-> price,
                         total_equity   |-> equity2,
                         position_usd   |-> position_val,
                         hl_equity      |-> hl_allocation,
                         ibkr_equity    |-> ibkr_allocation,
                         ibkr_loan      |-> ibkr_loan,
                         funding_income |-> fund_income,
                         interest_cost  |-> hourly_interest,
                         funding_apr    |-> funding * HoursPerDay * DaysPerYear,
                         net_spread_apr |->
                             MulDiv(net_pnl, HoursPerDay * DaysPerYear * 100,
                                    IF position_val > 0 THEN position_val ELSE 1),
                         breakeven_funding |->
                             IF position_val > 0
                             THEN MulDiv(hourly_interest, 10000, position_val)
                             ELSE 0],
                total_equity |-> equity2, shares |-> ex.shares,
                brk |-> Breaks(FALSE, equity2), ties |-> seen]

\* The roundings an iteration may be run with: a tie met before compares as it
\* did then, and a rounding that is not consulted is left FALSE
Roundings(cfg) ==
    IF cfg.safety_factor = 100
    THEN [lev_above : BOOLEAN, hl_above : BOOLEAN, maint_below : BOOLEAN]
    ELSE {[lev_above |-> FALSE, hl_above |-> FALSE, maint_below |-> FALSE]}

Admissible(memo, fr, out) ==
    /\ \A t \in out.ties : t[1] \in DOMAIN memo => memo[t[1]] = t[2]
    /\ fr.lev_above => \E t \in out.ties : t[1][1] = "lev"
    /\ fr.hl_above => \E t \in out.ties : t[1][1] = "hl"
    /\ fr.maint_below => \E t \in out.ties : t[1][1] = "maint"

Remember(memo, ties) ==
    [k \in DOMAIN memo \cup {t[1] : t \in ties} |->
        IF k \in DOMAIN memo THEN memo[k]
        ELSE (CHOOSE t \in ties : t[1] = k)[2]]

---------------------------------------------------------------------------
\* Inputs

\* FundingStrategy(capital, hl_split_pct, benchmark_rate, safety_factor).
\* The constructor validates nothing; a safety factor above 100% is the input
\* on which the pre-trade checks can fire.
Capitals == {100000, 1000000}
Splits == {10, 30}
BenchmarkRates == {364}
SafetyFactors == {80, 100, 125}

Configs ==
    [capital : Capitals, hl_split_pct : Splits,
     benchmark_rate : BenchmarkRates, safety_factor : SafetyFactors]

\* Hourly observations <<price, funding>>: positive prices, funding of either
\* sign.  A quiet hour, a price rise inside the drift band, a funding shock
\* that shrinks the pool past the drift band, and one that wipes the pool out.
Observations == {<<100, 1>>, <<108, 1>>, <<100, -300>>, <<100, -2500>>}

\* Tables of n rows with strictly increasing hourly timestamps; the table
\* already carries the datetime column (as DataEngine.get_data returns it)
\* or only the raw timestamp
RawRow(k, obs) ==
    [timestamp |-> (k - 1) * HourMs, price |-> obs[1], funding |-> obs[2]]

Tables(n) ==
    LET raw == {[k \in 1..n |-> RawRow(k, o[k])] : o \in [1..n -> Observations]}
    IN raw \cup {CopyWithDatetime(t) : t \in raw}

InputTables == UNION {Tables(n) : n \in 0..MaxRows}

---------------------------------------------------------------------------
\* State machine of one strategy object: construction, then calls of run

\* the parts of the state a specification does not use
NotCalled == [called |-> FALSE]
NoMetrics == metrics = NotCalled
NoGrid == opt = <<>> /\ cell = 0 /\ grid_results = <<>> /\ sim = <<>>
NoRanking ==
    ranker = <<>> /\ tk = 0 /\ ranked = <<>> /\ errors = <<>> /\ ranking = NotCalled

Init ==
    /\ self \in Configs
    /\ df \in InputTables
    /\ work = <<>>
    /\ i = 0
    /\ total_equity = 0
    /\ shares = 0
    /\ results = <<>>
    /\ pc = "idle"
    /\ prev = <<>>
    /\ runs = 0
    /\ fp = <<>>
    /\ loan_amount = 0
    /\ cost = -1
    /\ NoMetrics /\ NoGrid /\ NoRanking

\* Variant of RunEnter: no test for the empty table, the loop is entered
RunEnterNoEmptyTest ==
    /\ pc \in {"idle", "returned"}
    /\ runs < MaxRuns
    /\ prev' = results
    /\ work' = CopyWithDatetime(df)
    /\ df' = CallerTable(df, work')
    /\ total_equity' = self.capital * 100
    /\ shares' = 0
    /\ results' = <<>>
    /\ i' = 1
    /\ pc' = "loop"
    /\ UNCHANGED <<self, runs, fp, loan_amount, cost, metrics, grid_vars, rank_vars>>

\* run is called (lines 67-77): the empty table returns at once, otherwise
\* the table is copied and the locals initialised
RunEnter ==
    /\ pc \in {"idle", "returned"}
    /\ runs < MaxRuns
    /\ prev' = results
    /\ IF df = <<>>
       THEN /\ results' = <<>>
            /\ pc' = "returned"
            /\ runs' = runs + 1
            /\ UNCHANGED <<df, work, i, total_equity, shares>>
       ELSE /\ work' = CopyWithDatetime(df)
            /\ df' = CallerTable(df, work')
            /\ total_equity' = self.capital * 100
            /\ shares' = 0
            /\ results' = <<>>
            /\ i' = 1
            /\ pc' = "loop"
            /\ UNCHANGED runs
    /\ UNCHANGED <<self, fp, loan_amount, cost, metrics, grid_vars, rank_vars>>

\* one iteration of the for loop (lines 79-163)
Hour ==
    /\ pc = "loop"
    /\ i <= Len(work)
    /\ \E fr \in Roundings(self) :
         \E out \in {LoopBody(self, total_equity, shares, work[i], fr)} :
            /\ Admissible(fp, fr, out)
            /\ results' = Append(results, out.row)
            /\ total_equity' = out.total_equity
            /\ shares' = out.shares
            /\ pc' = IF out.brk THEN "break" ELSE "loop"
            /\ i' = IF out.brk THEN i ELSE i + 1
            /\ fp' = Remember(fp, out.ties)
    /\ UNCHANGED <<self, df, work, prev, runs, loan_amount, cost, metrics,
                   grid_vars, rank_vars>>

\* the loop is left, by break or by exhaustion, and the table returned (line 165)
Return ==
    /\ \/ pc = "break"
       \/ pc = "loop" /\ i > Len(work)
    /\ pc' = "returned"
    /\ runs' = runs + 1
    /\ UNCHANGED <<self, df, work, i, total_equity, shares, results, prev,
                   fp, loan_amount, cost, metrics, grid_vars, rank_vars>>

Next == RunEnter \/ Hour \/ Return

Spec == Init /\ [][Next]_vars

---------------------------------------------------------------------------
\* A direct call of _calc_tiered_interest on a strategy object

LoanAmounts ==
    {k * 250000 : k \in -1..MaxLoanSteps}
        \cup {50000, 150000}
        \cup {Tier1Max - 1, Tier1Max, Tier1Max + 1}
        \cup {Tier2Max - 1, Tier2Max, Tier2Max + 1}

InterestRates == {0, 364, 500, 533}

InitInterest ==
    /\ self \in [capital : {1000000}, hl_split_pct : {30},
                 benchmark_rate : InterestRates, safety_factor : {80}]
    /\ loan_amount \in LoanAmounts
    /\ cost = -1
    /\ pc = "call"
    /\ df = <<>>
    /\ work = <<>>
    /\ i = 0
    /\ total_equity = 0
    /\ shares = 0
    /\ results = <<>>
    /\ prev = <<>>
    /\ runs = 0
    /\ fp = <<>>
    /\ NoMetrics /\ NoGrid /\ NoRanking

CalcInterest ==
    /\ pc = "call"
    /\ cost' = _calc_tiered_interest(self.benchmark_rate, loan_amount)
    /\ pc' = "called"
    /\ UNCHANGED <<self, df, work, i, total_equity, shares, results, prev, runs,
                   fp, loan_amount, metrics, grid_vars, rank_vars>>

NextInterest == CalcInterest

SpecInterest == InitInterest /\ [][NextInterest]_vars

---------------------------------------------------------------------------
\* FundingStrategy.get_metrics on the table a run returned

MinMetricRows == 24

\* Python's None
None == [none |-> TRUE]

\* x ** (p / q) for x = num / den in float64: not a number for a negative
\* base and an exponent that is not whole; otherwise kept as its operands
Power(num, den, p, q) ==
    IF num < 0 /\ p % q # 0
    THEN [nan |-> TRUE]
    ELSE [nan |-> FALSE, base |-> <<num, den>>, exponent |-> <<p, q>>]

\* get_metrics(df): None, or the record of the four metrics.  CAGR is the
\* power (final / capital) ** (365 / max(1, days)), of which 1 is subtracted;
\* MaxDD in 1e-4; Sharpe is 0 when the hourly returns (1e-6) have no spread,
\* otherwise kept as the mean return it is the multiple of.
get_metrics(cfg, table) ==
    IF table = <<>> \/ Len(table) < MinMetricRows THEN None
    ELSE LET n     == Len(table)
             E(k)  == table[k].total_equity
             final == E(n)
             hours == (table[n].datetime.epoch_ms - table[1].datetime.epoch_ms)
                          \div HourMs
             peak[k \in 1..n] == IF k = 1 THEN E(1) ELSE Max(peak[k - 1], E(k))
             dd(k) == IF peak[k] # 0
                      THEN MulDiv(E(k) - peak[k], 10000, Abs(peak[k]))
                      ELSE 0
             max_dd == CHOOSE d \in {dd(k) : k \in 1..n} :
                           \A k \in 1..n : d <= dd(k)
             ret(k) == IF k = 1 \/ E(k - 1) = 0 THEN 0
                       ELSE MulDiv(E(k) - E(k - 1), 1000000, Abs(E(k - 1)))
             flat   == \A k \in 1..n : ret(k) = ret(1)
             RECURSIVE sum(_)
             sum(k) == IF k = 0 THEN 0 ELSE sum(k - 1) + ret(k)
         IN [CAGR   |-> Power(final, cfg.capital * 100,
                              DaysPerYear * HoursPerDay, Max(HoursPerDay, hours)),
             Sharpe |-> IF flat THEN [zero |-> TRUE]
                        ELSE [zero |-> FALSE, mean |-> sum(n) \div n],
             MaxDD  |-> max_dd,
             Final  |-> final]

\* Longer inputs: hourly tables of up to MaxHours rows around the 24-row
\* threshold, quiet throughout, or ending in a funding shock that wipes the
\* pool out, or with a shock in the last hour but one that leaves the HL leg
\* under its maintenance margin in the last
MaxHours == 26

LongLengths ==
    {0, 1, MinMetricRows - 1, MinMetricRows} \cup (MinMetricRows + 1)..MaxHours

Profiles == {"quiet", "wipeout", "squeeze"}

ProfileObs(profile, k, n) ==
    IF profile = "wipeout" /\ k = n THEN <<100, -3000>>
    ELSE IF profile = "squeeze" /\ k = n - 1 THEN <<100, -320>>
    ELSE <<100, 1>>

LongTable(n, profile) == [k \in 1..n |-> RawRow(k, ProfileObs(profile, k, n))]

LongTables == {LongTable(n, p) : n \in LongLengths, p \in Profiles}

MetricConfigs ==
    [capital : {100000}, hl_split_pct : {10, 30},
     benchmark_rate : {364}, safety_factor : {80, 95}]

InitMetrics ==
    /\ self \in MetricConfigs
    /\ df \in LongTables
    /\ work = <<>>
    /\ i = 0
    /\ total_equity = 0
    /\ shares = 0
    /\ results = <<>>
    /\ pc = "idle"
    /\ prev = <<>>
    /\ runs = 0
    /\ fp = <<>>
    /\ loan_amount = 0
    /\ cost = -1
    /\ NoMetrics /\ NoGrid /\ NoRanking

\* get_metrics is called on the table run returned
GetMetrics ==
    /\ pc = "returned"
    /\ metrics' = get_metrics(self, results)
    /\ pc' = "measured"
    /\ UNCHANGED <<self, df, work, i, total_equity, shares, results, prev, runs,
                   fp, loan_amount, cost, grid_vars, rank_vars>>

NextMetrics == RunEnter \/ Hour \/ Return \/ GetMetrics

SpecMetrics == InitMetrics /\ [][NextMetrics]_vars

---------------------------------------------------------------------------
\* OptimizationEngine.run_grid_search (src/src/optimization_engine.py)

\* The constructor binds its arguments by position.  Callers pass fractions
\* (here in 1e-4); the fields keep the units of the model: split and safety
\* factor in 1e-2, benchmark rate in 1e-4.
FundingStrategy(capital, hl_split_pct, benchmark_rate, safety_factor) ==
    [capital        |-> capital,
     hl_split_pct   |-> hl_split_pct \div 100,
     benchmark_rate |-> benchmark_rate,
     safety_factor  |-> safety_factor \div 100]

\* no comparison of the run is a tie (safety factor other than 100%)
NoRounding == [lev_above |-> FALSE, hl_above |-> FALSE, maint_below |-> FALSE]

\* run as a function of the configuration and the table: the rows returned
RECURSIVE RunFrom(_, _, _, _, _, _)
RunFrom(cfg, table, k, equity, sh, rows) ==
    IF k > Len(table) THEN rows
    ELSE CHOOSE all \in
             {IF out.brk THEN Append(rows, out.row)
              ELSE RunFrom(cfg, table, k + 1, out.total_equity, out.shares,
                           Append(rows, out.row)) :
                 out \in {LoopBody(cfg, equity, sh, table[k], NoRounding)}} : TRUE

run(cfg, table) ==
    IF table = <<>> THEN <<>>
    ELSE RunFrom(cfg, CopyWithDatetime(table), 1, cfg.capital * 100, 0, <<>>)

\* row['price'] or row['funding'] raises KeyError on a table without the column
Raises(table) ==
    \E k \in 1..Len(table) : ~({"price", "funding"} \subseteq DOMAIN table[k])

\* np.arange(1.0, 5.5, 0.5) and np.arange(0.10, 0.60, 0.10), in 1e-4
lev_range == [k \in 1..9 |-> 10000 + (k - 1) * 5000]
split_range == [k \in 1..5 |-> 1000 * k]

\* a leverage figure (1e-2) or not a number
Number(x) == [nan |-> FALSE, x |-> x]
NaN == [nan |-> TRUE]

\* position_usd / equity.replace(0, np.nan) of one row
RowLeverage(position_usd, equity) ==
    IF equity = 0 THEN NaN
    ELSE IF equity > 0 THEN Number(MulDiv(position_usd, 100, equity))
    ELSE Number(MulDiv(0 - position_usd, 100, 0 - equity))

\* Series.max(): the largest of the numbers, not a number when there is none
SeriesMax(series) ==
    LET nums == {series[k].x : k \in {j \in 1..Len(series) : ~series[j].nan}}
    IN IF nums = {} THEN NaN
       ELSE Number(CHOOSE x \in nums : \A y \in nums : y <= x)

\* a < bound in float64: false when a is not a number
LessThan(a, bound) == ~a.nan /\ a.x < bound

\* a yield of exactly 0
ZeroYield == Power(1, 1, 1, 1)

\* Variant of SentinelRow: the failed combination keeps a safe verdict
SentinelRowSafe(lev, split) ==
    [Leverage |-> lev, Split |-> split, APR |-> ZeroYield, Safe |-> TRUE,
     Max_HL_Lev |-> Number(99900), Max_IBKR_Lev |-> Number(99900)]

\* the row recorded when the combination raised (lines 52-61)
SentinelRow(lev, split) ==
    [Leverage |-> lev, Split |-> split, APR |-> ZeroYield, Safe |-> FALSE,
     Max_HL_Lev |-> Number(99900), Max_IBKR_Lev |-> Number(99900)]

\* the row recorded for a combination with metrics (lines 30-49)
MetricsRow(lev, split, r, m) ==
    LET hl_lev_series ==
            [k \in 1..Len(r) |-> RowLeverage(r[k].position_usd, r[k].hl_equity)]
        ibkr_lev_series ==
            [k \in 1..Len(r) |-> RowLeverage(r[k].position_usd, r[k].ibkr_equity)]
    IN CHOOSE row \in
           {[Leverage |-> lev, Split |-> split, APR |-> m.CAGR,
             Safe |-> LessThan(max_hl, hl_max_lev * 100)
                         /\ LessThan(max_ibkr, ibkr_max_lev * 10),
             Max_HL_Lev |-> max_hl, Max_IBKR_Lev |-> max_ibkr] :
                max_hl \in {SeriesMax(hl_lev_series)},
                max_ibkr \in {SeriesMax(ibkr_lev_series)}} : TRUE

\* lines 28-61 for one simulated frame r: metrics, then the row or the sentinel
GridOutcome(s, lev, split, r) ==
    CHOOSE done \in
        {IF m = None
         THEN [sim |-> [s |-> s, raised |-> TRUE, r |-> r, m |-> m],
               row |-> SentinelRow(lev, split)]
         ELSE [sim |-> [s |-> s, raised |-> FALSE, r |-> r, m |-> m],
               row |-> MetricsRow(lev, split, r, m)] :
            m \in {get_metrics(s, r)}} : TRUE

\* One combination (lines 24-61): the locals s, r, m and the row appended
GridEntry(engine, lev, split, table) ==
    CHOOSE entry \in
        {IF Raises(table)
         THEN [sim |-> [s |-> s, raised |-> TRUE],
               row |-> SentinelRow(lev, split)]
         ELSE CHOOSE done \in
                  {GridOutcome(s, lev, split, r) : r \in {run(s, table)}} : TRUE :
            s \in {FundingStrategy(engine.capital, lev, split,
                                   engine.benchmark_rate)}} : TRUE

\* Inputs of the search: a small capital (the yearly spread of an hour with
\* a position <= 0 is the hour's PnL times 876000, which has to fit the
\* integers of the model), quiet hourly tables around the 24-row threshold,
\* one with a price rise, and one without funding column
GridCapitals == {10000, 50000}
GridBenchmarks == {400, 500}

GridTables ==
    {LongTable(n, "quiet") : n \in LongLengths}
        \cup {[k \in 1..MaxHours |-> RawRow(k, IF k % 2 = 0 THEN <<108, 1>> ELSE <<100, 1>>)]}
        \cup {[k \in 1..MinMetricRows |-> [timestamp |-> (k - 1) * HourMs, price |-> 100]]}

InitGrid ==
    /\ opt \in [capital : GridCapitals, benchmark_rate : GridBenchmarks]
    /\ df \in GridTables
    /\ cell = 0
    /\ grid_results = <<>>
    /\ sim = <<>>
    /\ pc = "idle"
    /\ self = <<>>
    /\ work = <<>>
    /\ i = 0
    /\ total_equity = 0
    /\ shares = 0
    /\ results = <<>>
    /\ prev = <<>>
    /\ runs = 0
    /\ fp = <<>>
    /\ loan_amount = 0
    /\ cost = -1
    /\ NoMetrics /\ NoRanking

\* run_grid_search is called (lines 11-20)
GridEnter ==
    /\ pc = "idle"
    /\ pc' = "grid"
    /\ cell' = 0
    /\ grid_results' = <<>>
    /\ UNCHANGED <<self, df, work, i, total_equity, shares, results, prev, runs,
                   fp, loan_amount, cost, metrics, opt, sim, rank_vars>>

\* Variant of GridCell: a combination that raised leaves no row
GridCellOmitFailed ==
    /\ pc = "grid"
    /\ cell < Len(lev_range) * Len(split_range)
    /\ \E out \in {GridEntry(opt, lev_range[(cell \div Len(split_range)) + 1],
                             split_range[(cell % Len(split_range)) + 1], df)} :
          /\ grid_results' = IF out.sim.raised THEN grid_results
                              ELSE Append(grid_results, out.row)
          /\ sim' = out.sim
    /\ cell' = cell + 1
    /\ UNCHANGED <<self, df, work, i, total_equity, shares, results, pc, prev,
                   runs, fp, loan_amount, cost, metrics, opt, rank_vars>>

\* one iteration of the inner loop (lines 22-61)
GridCell ==
    /\ pc = "grid"
    /\ cell < Len(lev_range) * Len(split_range)
    /\ \E out \in {GridEntry(opt, lev_range[(cell \div Len(split_range)) + 1],
                             split_range[(cell % Len(split_range)) + 1], df)} :
          /\ grid_results' = Append(grid_results, out.row)
          /\ sim' = out.sim
    /\ cell' = cell + 1
    /\ UNCHANGED <<self, df, work, i, total_equity, shares, results, pc, prev,
                   runs, fp, loan_amount, cost, metrics, opt, rank_vars>>

\* both loops are exhausted and the table is returned (line 63)
GridReturn ==
    /\ pc = "grid"
    /\ cell = Len(lev_range) * Len(split_range)
    /\ pc' = "grid_done"
    /\ UNCHANGED <<self, df, work, i, total_equity, shares, results, prev, runs,
                   fp, loan_amount, cost, metrics, grid_vars, rank_vars>>

NextGrid == GridEnter \/ GridCell \/ GridReturn

SpecGrid == InitGrid /\ [][NextGrid]_vars

---------------------------------------------------------------------------
\* AssetRanker.run_ranking (src/src/asset_ranker.py)

\* an asset is skipped when its filtered series has this many rows or fewer
MaxSkippedHours == 24

RECURSIVE SumFunding(_, _)
SumFunding(rows, k) ==
    IF k = 0 THEN 0 ELSE SumFunding(rows, k - 1) + rows[k].funding

\* Variant of RankEntry: an empty series is dropped without a reason
RankEntrySilentEmpty(rk, ticker) ==
    LET feed == rk.data[ticker]
    IN IF feed.raises
       THEN [kind |-> "error",
             error |-> [ticker |-> ticker, reason |-> feed.message]]
       ELSE IF feed.rows = <<>>
       THEN [kind |-> "none"]
       ELSE IF Len(feed.rows) <= MaxSkippedHours
       THEN [kind |-> "error",
             error |-> [ticker |-> ticker, reason |-> "Only hours (need >24)",
                        hours |-> Len(feed.rows)]]
       ELSE [kind |-> "row",
             row |-> [Symbol |-> ticker,
                      AvgNetAPR |->
                          MulDiv(SumFunding(feed.rows, Len(feed.rows)),
                                 HoursPerDay * DaysPerYear * 100, Len(feed.rows))
                              - rk.benchmark_rate * 100,
                      SampleHours |-> Len(feed.rows)]]

\* One ticker (lines 17-42): the row appended to results or the reason
\* appended to errors.  feed is what filter_func(engine.get_data(ticker), ...)
\* does: it raises, or gives the filtered series.  Avg Net APR in 1e-6.
RankEntry(rk, ticker) ==
    LET feed == rk.data[ticker]
    IN IF feed.raises
       THEN [kind |-> "error",
             error |-> [ticker |-> ticker, reason |-> feed.message]]
       ELSE IF feed.rows = <<>>
       THEN [kind |-> "error",
             error |-> [ticker |-> ticker, reason |-> "Empty after filtering"]]
       ELSE IF Len(feed.rows) <= MaxSkippedHours
       THEN [kind |-> "error",
             error |-> [ticker |-> ticker, reason |-> "Only hours (need >24)",
                        hours |-> Len(feed.rows)]]
       ELSE [kind |-> "row",
             row |-> [Symbol |-> ticker,
                      AvgNetAPR |->
                          MulDiv(SumFunding(feed.rows, Len(feed.rows)),
                                 HoursPerDay * DaysPerYear * 100, Len(feed.rows))
                              - rk.benchmark_rate * 100,
                      SampleHours |-> Len(feed.rows)]]

\* Variant of sort_values: ascending order
SortAscending(rows) ==
    {[k \in 1..Len(rows) |-> rows[q[k]]] :
        q \in {o \in Permutations(1..Len(rows)) :
                 \A j, k \in 1..Len(rows) :
                    j < k => rows[o[j]].AvgNetAPR <= rows[o[k]].AvgNetAPR}}

\* sort_values(by="Avg Net APR", ascending=False): the orders a sort that
\* need not be stable can give
sort_values(rows) ==
    {[k \in 1..Len(rows) |-> rows[q[k]]] :
        q \in {o \in Permutations(1..Len(rows)) :
                 \A j, k \in 1..Len(rows) :
                    j < k => rows[o[j]].AvgNetAPR >= rows[o[k]].AvgNetAPR}}

\* Inputs: up to MaxTickers tickers (numbered), each with a feed that raises
\* or gives a series of a length around the threshold; the funding of a
\* series is flat at a level with one higher last hour
MaxTickers == 3

RankLengths == {0, MaxSkippedHours - 1, MaxSkippedHours, MaxSkippedHours + 1}
FundingLevels == {1, 2}

Feeds ==
    {[raises |-> TRUE, message |-> "no such table: hourly_data"]}
        \cup {[raises |-> FALSE,
               rows |-> [k \in 1..n |-> [funding |-> IF k = n THEN level + 1 ELSE level]]] :
                 n \in RankLengths, level \in FundingLevels}

Rankers ==
    UNION {[benchmark_rate : {364}, ticker_list : {[k \in 1..n |-> k]},
            data : [1..n -> Feeds]] : n \in 0..MaxTickers}

InitRank ==
    /\ ranker \in Rankers
    /\ tk = 0
    /\ ranked = <<>>
    /\ errors = <<>>
    /\ ranking = NotCalled
    /\ pc = "idle"
    /\ self = <<>>
    /\ df = <<>>
    /\ work = <<>>
    /\ i = 0
    /\ total_equity = 0
    /\ shares = 0
    /\ results = <<>>
    /\ prev = <<>>
    /\ runs = 0
    /\ fp = <<>>
    /\ loan_amount = 0
    /\ cost = -1
    /\ NoMetrics /\ NoGrid

\* run_ranking is called (lines 9-14)
RankEnter ==
    /\ pc = "idle"
    /\ pc' = "ranking"
    /\ tk' = 0
    /\ ranked' = <<>>
    /\ errors' = <<>>
    /\ UNCHANGED <<self, df, work, i, total_equity, shares, results, prev, runs,
                   fp, loan_amount, cost, metrics, grid_vars, ranker, ranking>>

\* one iteration of the for loop (lines 16-42)
RankTicker ==
    /\ pc = "ranking"
    /\ tk < Len(ranker.ticker_list)
    /\ \E out \in {RankEntry(ranker, ranker.ticker_list[tk + 1])} :
          /\ ranked' = IF out.kind = "row" THEN Append(ranked, out.row) ELSE ranked
          /\ errors' = IF out.kind = "error" THEN Append(errors, out.error) ELSE errors
    /\ tk' = tk + 1
    /\ UNCHANGED <<self, df, work, i, total_equity, shares, results, pc, prev,
                   runs, fp, loan_amount, cost, metrics, grid_vars, ranker, ranking>>

\* the loop is exhausted: the empty table, or the sorted one (lines 52-55)
RankReturn ==
    /\ pc = "ranking"
    /\ tk = Len(ranker.ticker_list)
    /\ IF ranked = <<>>
       THEN ranking' = [table |-> <<>>]
       ELSE \E sorted \in sort_values(ranked) : ranking' = [table |-> sorted]
    /\ pc' = "ranked"
    /\ UNCHANGED <<self, df, work, i, total_equity, shares, results, prev, runs,
                   fp, loan_amount, cost, metrics, grid_vars, ranker, tk, ranked,
                   errors>>

NextRank == RankEnter \/ RankTicker \/ RankReturn

SpecRank == InitRank /\ [][NextRank]_vars

---------------------------------------------------------------------------
\* The steady-funding scenario: one configuration on ScenarioHours hours of
\* constant price 100 and funding 0.0001

ScenarioHours == 48

ScenarioConfig ==
    [capital |-> 1000000, hl_split_pct |-> 30, benchmark_rate |-> 364,
     safety_factor |-> 80]

ScenarioTable == [k \in 1..ScenarioHours |-> RawRow(k, <<100, 1>>)]

InitScenario ==
    /\ self = ScenarioConfig
    /\ df \in {ScenarioTable, CopyWithDatetime(ScenarioTable)}
    /\ work = <<>>
    /\ i = 0
    /\ total_equity = 0
    /\ shares = 0
    /\ results = <<>>
    /\ pc = "idle"
    /\ prev = <<>>
    /\ runs = 0
    /\ fp = <<>>
    /\ loan_amount = 0
    /\ cost = -1
    /\ NoMetrics /\ NoGrid /\ NoRanking

SpecScenario == InitScenario /\ [][Next]_vars

---------------------------------------------------------------------------
\* The funding-swing scenario: the steady scenario's setup at a safety factor
\* of 100%, with funding at -0.01 per hour for a stretch of consecutive hours
\* after some steady hours

StressHours == 6
SteadyHours == {0, 2}
StressFunding == -100

StressConfig ==
    [capital |-> 1000000, hl_split_pct |-> 30, benchmark_rate |-> 364,
     safety_factor |-> 100]

StressTable(steady, n) ==
    [k \in 1..(steady + n) |->
        RawRow(k, IF k <= steady THEN <<100, 1>> ELSE <<100, StressFunding>>)]

StressTables ==
    {StressTable(steady, n) : steady \in SteadyHours, n \in 3..StressHours}

InitStress ==
    /\ self = StressConfig
    /\ df \in StressTables \cup {CopyWithDatetime(t) : t \in StressTables}
    /\ work = <<>>
    /\ i = 0
    /\ total_equity = 0
    /\ shares = 0
    /\ results = <<>>
    /\ pc = "idle"
    /\ prev = <<>>
    /\ runs = 0
    /\ fp = <<>>
    /\ loan_amount = 0
    /\ cost = -1
    /\ NoMetrics /\ NoGrid /\ NoRanking

SpecStress == InitStress /\ [][Next]_vars

---------------------------------------------------------------------------
\* Runs around the drift band: a funding rate equal to the execution fee
\* returns the first hour's cost, so that the next hour's target is the first
\* hour's and a price step of 10% is a drift of exactly 10%; at a safety
\* factor of 10% the position needs no loan.  A funding shock shrinks the
\* pool, and with it the target, under a position that is held.

DriftConfigs ==
    [capital : {1000000}, hl_split_pct : {30, 50},
     benchmark_rate : BenchmarkRates, safety_factor : {10, 80}]

DriftObservations ==
    {<<100, cost_bps>>, <<110, cost_bps>>, <<90, cost_bps>>,
     <<111, cost_bps>>, <<89, cost_bps>>, <<100, -300>>}

DriftTables ==
    UNION {{[k \in 1..n |-> RawRow(k, o[k])] : o \in [1..n -> DriftObservations]} :
              n \in 1..MaxRows}

InitDrift ==
    /\ self \in DriftConfigs
    /\ df \in DriftTables
    /\ work = <<>>
    /\ i = 0
    /\ total_equity = 0
    /\ shares = 0
    /\ results = <<>>
    /\ pc = "idle"
    /\ prev = <<>>
    /\ runs = 0
    /\ fp = <<>>
    /\ loan_amount = 0
    /\ cost = -1
    /\ NoMetrics /\ NoGrid /\ NoRanking

SpecDrift == InitDrift /\ [][Next]_vars

---------------------------------------------------------------------------
\* Runs without a position: the whole pool on one venue (a split of 0% or
\* 100%) or a safety factor of 0% makes the target notional 0

FlatConfigs ==
    [capital : {100000}, hl_split_pct : {0, 30, 100},
     benchmark_rate : BenchmarkRates, safety_factor : {0, 80, 125}]

FlatObservations == {<<100, 1>>, <<100, -300>>}

FlatTables ==
    UNION {{[k \in 1..n |-> RawRow(k, o[k])] : o \in [1..n -> FlatObservations]} :
              n \in 0..MaxRows}

InitFlat ==
    /\ self \in FlatConfigs
    /\ df \in FlatTables
    /\ work = <<>>
    /\ i = 0
    /\ total_equity = 0
    /\ shares = 0
    /\ results = <<>>
    /\ pc = "idle"
    /\ prev = <<>>
    /\ runs = 0
    /\ fp = <<>>
    /\ loan_amount = 0
    /\ cost = -1
    /\ NoMetrics /\ NoGrid /\ NoRanking

SpecFlat == InitFlat /\ [][Next]_vars

---------------------------------------------------------------------------
\* Properties

IsFail(r) == "fail_reason" \in DOMAIN r
Last(t) == t[Len(t)]
HasFailure(t) == \E k \in 1..Len(t) : IsFail(t[k])

\* C1 (as stated): the result has at most one row per input row, and it has
\* as many rows as the input if and only if no failure occurred.
C1_RowCountIffNoFailure ==
    pc = "returned" =>
        /\ Len(results) <= Len(df)
        /\ (Len(results) = Len(df) <=> ~HasFailure(results))

\* C1 (amended): the result never has more rows than the input, and a returned
\* result with fewer rows than the input ends in a failure row or in a row
\* whose total_equity is not positive; a failure in the last input hour still
\* gives as many rows as the input.
C1_ShortOnlyAfterStop ==
    /\ Len(results) <= Len(df)
    /\ (pc = "returned" /\ Len(results) < Len(df)) =>
          /\ results # <<>>
          /\ IsFail(Last(results)) \/ Last(results).total_equity <= 0

\* a run that failed in the last hour of a table of several rows
C1_FailureInLastHour ==
    /\ pc = "returned"
    /\ Len(df) >= 2
    /\ Len(results) = Len(df)
    /\ IsFail(Last(results))

\* C2: a failure row is always the last row of the result, and the loop does
\* not run on once a failure row is there (so there is at most one).
C2_FailureRowIsLast ==
    /\ \A k \in 1..Len(results) : IsFail(results[k]) => k = Len(results)
    /\ pc = "loop" => ~HasFailure(results)

\* a run that stopped at a failure row after normal rows, with input left
C2_FailedMidway ==
    /\ pc = "returned"
    /\ Len(results) >= 2
    /\ Len(results) < Len(df)
    /\ IsFail(Last(results))

\* C3 (as stated): a result shorter than the input ends in a failure row that
\* carries a reason and a total_equity of 0.
C3_EarlyStopEndsInFailureRow ==
    (pc = "returned" /\ Len(results) < Len(df)) =>
        /\ results # <<>>
        /\ IsFail(Last(results))
        /\ Last(results).fail_reason # ""
        /\ Last(results).total_equity = 0

\* C4: every row but the last has a positive total_equity, and no further
\* hour is processed once a row with total_equity <= 0 is there.
C4_NoRowAfterNonPositiveEquity ==
    /\ \A k \in 1..(Len(results) - 1) : results[k].total_equity > 0
    /\ (pc = "loop" /\ results # <<>>) => Last(results).total_equity > 0

\* a run that recorded a normal row with total_equity <= 0 and stopped there
C4_StoppedOnWipedOutPool ==
    /\ pc = "returned"
    /\ results # <<>>
    /\ ~IsFail(Last(results))
    /\ Last(results).total_equity <= 0
    /\ Len(results) < Len(df)

\* C5: the result is a prefix of the input in input order: its k-th row,
\* normal or failure, carries the instant and the price of the k-th input row.
C5_PrefixOfInput ==
    /\ Len(results) <= Len(df)
    /\ \A k \in 1..Len(results) :
          /\ results[k].datetime.epoch_ms = df[k].timestamp
          /\ results[k].price = df[k].price

\* a result of normal rows and a final failure row over changing prices
C5_MixedRows ==
    /\ pc = "returned"
    /\ Len(results) >= 2
    /\ IsFail(Last(results))
    /\ df[1].price # df[Len(results)].price
    /\ "datetime" \notin DOMAIN df[1]

\* the hour the loop is about to process, and the venue equities and the
\* target notional it computes for it
AtHour == pc = "loop" /\ i <= Len(work)
IbkrLevExceeded ==
    /\ ibkr_alloc(self, total_equity) > 0
    /\ 10 * target_of(self, total_equity) > 66 * ibkr_alloc(self, total_equity)
HlLevExceeded ==
    /\ hl_alloc(self, total_equity) > 0
    /\ target_of(self, total_equity) > 20 * hl_alloc(self, total_equity)

\* C6: in an hour whose target notional exceeds 6.6 times the IBKR equity or
\* 20 times the HL equity, run appends a failure row for that hour with the
\* reason of the breached cap and leaves the loop, and shares and
\* total_equity keep their values (no trade, no cost, no PnL).
C6_PreTradeBreachStops ==
    [][ (AtHour /\ (IbkrLevExceeded \/ HlLevExceeded)) =>
           /\ Len(results') = Len(results) + 1
           /\ SubSeq(results', 1, Len(results)) = results
           /\ IsFail(Last(results'))
           /\ Last(results').fail_reason =
                 IF IbkrLevExceeded THEN "IBKR Margin Call (Lev > 6.6x)"
                 ELSE "HL Max Leverage Exceeded (>20x)"
           /\ Last(results').datetime = work[i].datetime
           /\ pc' = "break"
           /\ shares' = shares
           /\ total_equity' = total_equity ]_vars

\* a run stopped in its first hour by the HL cap, the pool untouched
C6_StoppedByLeverageCap ==
    /\ pc = "break"
    /\ Len(results) = 1
    /\ IsFail(Last(results))
    /\ Last(results).fail_reason = "HL Max Leverage Exceeded (>20x)"
    /\ self.safety_factor > 100
    /\ shares = 0
    /\ total_equity = self.capital * 100

PreTradeReasons ==
    {"IBKR Margin Call (Lev > 6.6x)", "HL Max Leverage Exceeded (>20x)"}

\* C7 (as stated): in every hour that reaches the maintenance check with a
\* position, the hour's row is a failure row exactly when the HL equity
\* after the hour's PnL is below 5% of the position notional or the IBKR
\* equity after the hour's PnL is below 10% of it.
C7_MaintenanceOnPostPnlEquity ==
    [][ ( /\ AtHour
          /\ Len(results') = Len(results) + 1
          /\ ~(IsFail(Last(results')) /\ Last(results').fail_reason \in PreTradeReasons)
          /\ shares' * work[i].price > 0 ) =>
        ( IsFail(Last(results')) <=>
             \/ 100 * hl_alloc(self, total_equity') < 5 * (shares' * work[i].price)
             \/ 100 * ibkr_alloc(self, total_equity') < 10 * (shares' * work[i].price) )
      ]_vars

\* the progressive three-tier schedule, cents per hour
TierReference(b, loan) ==
    IF loan <= 0 THEN 0
    ELSE (MulDiv(Min(loan, 100000), b + 150, 100)
          + MulDiv(Max(0, Min(loan, 1000000) - 100000), b + 100, 100)
          + MulDiv(Max(0, loan - 1000000), b + 75, 100)) \div (365 * 24)

\* C8: _calc_tiered_interest equals the progressive three-tier reference
\* for every loan and benchmark rate, 0 for loan <= 0; 50,000 at 5% costs
\* 50,000 * 0.065 / 8760 (37 cents an hour) and 150,000 costs
\* (100,000 * 0.065 + 50,000 * 0.06) / 8760 (108 cents an hour).
C8_MatchesTierReference ==
    pc = "called" =>
        /\ cost = TierReference(self.benchmark_rate, loan_amount)
        /\ loan_amount <= 0 => cost = 0
        /\ (loan_amount = 50000 /\ self.benchmark_rate = 500) => cost = 37
        /\ (loan_amount = 150000 /\ self.benchmark_rate = 500) => cost = 108

\* a loan that reaches into the third tier has been priced
C8_ThirdTierLoanPriced ==
    /\ pc = "called"
    /\ loan_amount > 1000000
    /\ cost > 0

\* C9: for a benchmark rate >= 0 the interest is non-decreasing in the loan,
\* and there is no jump in the charge: one dollar more or less of loan, at
\* the tier boundaries as anywhere, moves the hourly charge by at most one
\* cent and never down.
C9_MonotoneNoJump ==
    pc = "called" =>
        LET b == self.benchmark_rate
            above == _calc_tiered_interest(b, loan_amount + 1)
            below == _calc_tiered_interest(b, loan_amount - 1)
        IN /\ \A l \in LoanAmounts :
                 l <= loan_amount => _calc_tiered_interest(b, l) <= cost
           /\ below <= cost /\ cost - below <= 1
           /\ cost <= above /\ above - cost <= 1

\* a loan exactly at the upper tier boundary has been priced
C9_PricedAtBoundary ==
    /\ pc = "called"
    /\ loan_amount = 1000000
    /\ cost > 0

\* C10: a second run on the same object and input returns the table the
\* first returned; every run starts from total_equity = capital, shares = 0
\* and no rows; no step changes the configuration or the caller's table.
C10_Deterministic ==
    /\ [](pc = "returned" /\ runs >= 2 => results = prev)
    /\ [][ /\ self' = self
           /\ df' = df
           /\ (pc \in {"idle", "returned"} /\ pc' = "loop") =>
                 /\ total_equity' = self.capital * 100
                 /\ shares' = 0
                 /\ results' = <<>> ]_vars

\* a second run over a table without datetime column returned the same rows
C10_SecondRunReturned ==
    /\ pc = "returned"
    /\ runs = 2
    /\ Len(results) >= 2
    /\ results = prev
    /\ "datetime" \notin DOMAIN df[1]
    /\ total_equity # self.capital * 100

\* C11 (as stated): get_metrics returns None exactly when the table is empty
\* or has fewer than 24 rows; for a table of 24 or more rows it returns the
\* four metrics, Final being the total_equity of the last row and CAGR a
\* number.
C11_MetricsDefinedFrom24Rows ==
    pc = "measured" =>
        /\ metrics = None <=> (results = <<>> \/ Len(results) < 24)
        /\ Len(results) >= 24 =>
              /\ DOMAIN metrics = {"CAGR", "Sharpe", "MaxDD", "Final"}
              /\ metrics.Final = Last(results).total_equity
              /\ ~metrics.CAGR.nan

\* the axis values of the combination processed last
LastLev == lev_range[((cell - 1) \div Len(split_range)) + 1]
LastSplit == split_range[((cell - 1) % Len(split_range)) + 1]

\* C12: the table returned by run_grid_search has exactly one row for every
\* (lev, split) pair, 9 * 5 rows, whatever the outcome of the simulations;
\* while the search runs there is one row per combination done.
C12_OneRowPerCombination ==
    /\ pc \in {"grid", "grid_done"} => Len(grid_results) = cell
    /\ pc = "grid_done" =>
          /\ Len(grid_results) = 9 * 5
          /\ \A a \in 1..9, b \in 1..5 :
                Cardinality({k \in 1..Len(grid_results) :
                                /\ grid_results[k].Leverage = lev_range[a]
                                /\ grid_results[k].Split = split_range[b]}) = 1

\* a search whose every simulation produced no metrics returned its grid
C12_GridOfFailures ==
    /\ pc = "grid_done"
    /\ Len(df) = 23
    /\ sim.raised
    /\ Len(grid_results) = 45

\* C13: a combination whose simulation raises or whose metrics are None is
\* recorded with APR 0, Safe false and the sentinel leverages 999, under its
\* own axis values, and the search goes on with the next combination.
C13_FailedCombinationIsSentinel ==
    (cell > 0 /\ ("m" \notin DOMAIN sim \/ sim.m = None)) =>
        /\ Last(grid_results).Leverage = LastLev
        /\ Last(grid_results).Split = LastSplit
        /\ ~Last(grid_results).APR.nan
        /\ Last(grid_results).APR.base[1] = Last(grid_results).APR.base[2]
        /\ Last(grid_results).Safe = FALSE
        /\ Last(grid_results).Max_HL_Lev = Number(99900)
        /\ Last(grid_results).Max_IBKR_Lev = Number(99900)
        /\ pc \in {"grid", "grid_done"}
        /\ cell < 45 => pc = "grid"

\* a search went on after a combination whose simulation raised
C13_ContinuedAfterRaise ==
    /\ pc = "grid"
    /\ cell >= 2
    /\ Raises(df)
    /\ "m" \notin DOMAIN sim
    /\ Last(grid_results).Safe = FALSE

\* C14 (as stated): for a combination with metrics, Safe is true exactly
\* when position_usd / hl_equity < 20 and position_usd / ibkr_equity < 6.6 in
\* every row where the ratio is defined, and the recorded leverages are the
\* largest of these ratios.
C14_SafeIffPeaksBelowCaps ==
    (cell > 0 /\ "m" \in DOMAIN sim /\ sim.m # None) =>
        LET r == sim.r
            Below(pos, eq, cap10) ==
                IF eq > 0 THEN 10 * pos < cap10 * eq ELSE 10 * pos > cap10 * eq
            hl_rows   == {k \in 1..Len(r) : r[k].hl_equity # 0}
            ibkr_rows == {k \in 1..Len(r) : r[k].ibkr_equity # 0}
        IN /\ Last(grid_results).Safe <=>
                 /\ \A k \in hl_rows : Below(r[k].position_usd, r[k].hl_equity, 200)
                 /\ \A k \in ibkr_rows : Below(r[k].position_usd, r[k].ibkr_equity, 66)
           /\ hl_rows # {} => ~Last(grid_results).Max_HL_Lev.nan
           /\ ibkr_rows # {} => ~Last(grid_results).Max_IBKR_Lev.nan

\* C15 (as stated): the simulation of combination (lev, split) is a strategy
\* with the driver's capital and benchmark rate, hl_split_pct = split and
\* safety factor = lev.
C15_CellConfiguration ==
    cell > 0 =>
        /\ sim.s.capital = opt.capital
        /\ sim.s.benchmark_rate = opt.benchmark_rate
        /\ sim.s.hl_split_pct = LastSplit \div 100
        /\ sim.s.safety_factor = LastLev \div 100

\* whether the filtered series of ticker k has n rows or more
HasHours(k, n) == ~ranker.data[k].raises /\ Len(ranker.data[k].rows) >= n
IsRanked(k) == \E j \in 1..Len(ranking.table) : ranking.table[j].Symbol = k

\* C16 (as stated): an asset is ranked if and only if its filtered series
\* has at least 24 rows, exactly 24 included; otherwise it is skipped with a
\* reason.
C16_RankedIffAtLeast24Hours ==
    pc = "ranked" =>
        \A k \in 1..Len(ranker.ticker_list) :
            /\ IsRanked(k) <=> HasHours(k, 24)
            /\ ~HasHours(k, 24) => \E j \in 1..Len(errors) : errors[j].ticker = k

\* C17: every ticker processed has exactly one outcome, a ranked row or a
\* skip reason; a ticker whose feed raises gets the exception's message as
\* its reason and the loop goes on to the end of the list.
C17_OneOutcomePerTicker ==
    /\ pc \in {"ranking", "ranked"} =>
          /\ Len(ranked) + Len(errors) = tk
          /\ \A k \in 1..tk :
                Cardinality({j \in 1..Len(ranked) : ranked[j].Symbol = k})
                  + Cardinality({j \in 1..Len(errors) : errors[j].ticker = k}) = 1
          /\ \A k \in 1..tk :
                ranker.data[k].raises =>
                    \E j \in 1..Len(errors) :
                        /\ errors[j].ticker = k
                        /\ errors[j].reason = ranker.data[k].message
    /\ pc = "ranked" => tk = Len(ranker.ticker_list)

\* a ranking that got past a raising ticker and an empty one to rank a third
C17_RankedAfterRaise ==
    /\ pc = "ranked"
    /\ Len(ranker.ticker_list) = 3
    /\ ranker.data[1].raises
    /\ HasHours(2, 0) /\ ~HasHours(2, 1)
    /\ IsRanked(3)
    /\ Len(errors) = 2

\* C18 (as stated): the value run_ranking returns carries, next to the
\* ranked table, the skip reasons of every skipped asset.
C18_ReturnsSkipReasons ==
    pc = "ranked" =>
        /\ "table" \in DOMAIN ranking
        /\ "errors" \in DOMAIN ranking
        /\ ranking.errors = errors

\* C19: the returned table holds the ranked rows in descending order of
\* mean(funding) * 24 * 365 - benchmark_rate: an asset with a larger mean
\* funding is never below one with a smaller; it is empty when no asset is
\* ranked.
C19_SortedDescending ==
    pc = "ranked" =>
        LET tab == ranking.table
            sum(j) == SumFunding(ranker.data[tab[j].Symbol].rows, tab[j].SampleHours)
        IN /\ Len(tab) = Len(ranked)
           /\ {tab[j] : j \in 1..Len(tab)} = {ranked[j] : j \in 1..Len(ranked)}
           /\ ranked = <<>> => tab = <<>>
           /\ \A j, k \in 1..Len(tab) :
                 j < k => sum(j) * tab[k].SampleHours >= sum(k) * tab[j].SampleHours

\* a ranking whose rows had to be reordered
C19_Reordered ==
    /\ pc = "ranked"
    /\ Len(ranking.table) >= 2
    /\ ranking.table # ranked
    /\ ranking.table[1].AvgNetAPR > ranking.table[Len(ranking.table)].AvgNetAPR

\* C20: in the steady-funding scenario no row is a failure row, the first
\* row's total_equity is below the capital, total_equity rises strictly from
\* each row to the next, net_spread_apr is positive in every row, and the
\* returned table has all 48 rows.
C20_SteadyFundingScenario ==
    /\ ~HasFailure(results)
    /\ results # <<>> => results[1].total_equity < 1000000 * 100
    /\ \A k \in 2..Len(results) :
          results[k].total_equity > results[k - 1].total_equity
    /\ \A k \in 1..Len(results) : results[k].net_spread_apr > 0
    /\ pc = "returned" => Len(results) = Len(df)

\* the scenario ran to its last hour and returned
C20_ScenarioCompleted ==
    /\ pc = "returned"
    /\ Len(results) = ScenarioHours
    /\ Len(df) >= 48
    /\ results[Len(results)].total_equity > results[1].total_equity

FailReasons ==
    {"IBKR Margin Call (Lev > 6.6x)", "HL Max Leverage Exceeded (>20x)",
     "HL Liquidation (Equity < 5%)", "IBKR Margin Call (Equity < 10%)"}

\* C21 (as stated): in the funding-swing scenario the returned table has a
\* failure row for one of the hours of funding -0.01, its reason names a
\* margin or maintenance breach, and it is the last row.
C21_FundingSwingFails ==
    pc = "returned" =>
        \E k \in 1..Len(results) :
            /\ IsFail(results[k])
            /\ results[k].fail_reason \in FailReasons
            /\ df[k].funding = StressFunding
            /\ k = Len(results)

\* C22: a call of run on an empty table returns an empty table at once: no
\* hour is processed, the locals of the loop are not touched, and nothing
\* but the return happens.
C22_EmptyInputReturnsEmpty ==
    /\ [](df = <<>> => pc \in {"idle", "returned"} /\ results = <<>> /\ i = 0)
    /\ [][ (pc \in {"idle", "returned"} /\ df = <<>>) =>
              /\ pc' = "returned"
              /\ results' = <<>>
              /\ runs' = runs + 1
              /\ UNCHANGED <<df, work, i, total_equity, shares, fp>> ]_vars

\* run was called on an empty table and has returned
C22_ReturnedFromEmptyInput ==
    /\ df = <<>>
    /\ pc = "returned"
    /\ runs >= 1
    /\ results = <<>>
    /\ work = <<>>
    /\ total_equity = 0

\* an hour is processed and passes the pre-trade checks
PassesPreTrade ==
    /\ AtHour
    /\ Len(results') = Len(results) + 1
    /\ ~(IsFail(Last(results')) /\ Last(results').fail_reason \in PreTradeReasons)

\* funding income less interest of the hour in progress, on the position
\* held after the execution step
HourPnl ==
    LET position_val == shares' * work[i].price
    IN MulDiv(position_val, work[i].funding, 100)
           - _calc_tiered_interest(self.benchmark_rate,
                 Max(0, position_val - ibkr_alloc(self, total_equity)))

\* C23: in every hour that reaches the execution step with a positive target,
\* a trade happens if and only if |shares * price - target| / target > 0.10;
\* when it happens, shares becomes target / price and total_equity is charged
\* |target_shares - shares| * price * 12 / 10000 before the position is
\* repriced; when it does not, shares are unchanged and nothing is charged.
C23_TradesOnDriftAboveTolerance ==
    [][ (PassesPreTrade /\ target_of(self, total_equity) > 0) =>
          LET target == target_of(self, total_equity)
              price  == work[i].price
              target_shares == target \div price
          IN IF 100 * Abs(shares * price - target) > 10 * target
             THEN /\ shares' = target_shares
                  /\ total_equity' - HourPnl =
                        total_equity
                            - MulDiv(Abs(target_shares - shares) * price, 12, 100)
             ELSE /\ shares' = shares
                  /\ total_equity' - HourPnl = total_equity ]_vars

\* the second hour met a drift of exactly 10% and kept the first hour's shares
C23_HeldAtExactTolerance ==
    /\ Len(results) >= 2
    /\ ~HasFailure(results)
    /\ LET target == target_of(self, results[1].total_equity)
       IN /\ target > 0
          /\ 100 * Abs((results[1].position_usd \div work[1].price) * work[2].price
                          - target) = 10 * target
          /\ results[2].position_usd
                = (results[1].position_usd \div work[1].price) * work[2].price
          /\ results[2].total_equity
                = results[1].total_equity + results[2].funding_income
                      - results[2].interest_cost

\* total_equity at the start of the hour of result row k
StartEquity(k) == IF k = 1 THEN self.capital * 100 ELSE results[k - 1].total_equity

\* C24: the venue equities of every hour are the split of the total_equity
\* the hour starts with, hl = total_equity * split and ibkr = total_equity *
\* (1 - split), summing to it (to the rounding of a USD), whatever the
\* previous hour's venue equities were; and the target an hour trades to is
\* min(hl * 20, ibkr * 6.6) * safety_factor.
C24_VenuesSplitFreshEveryHour ==
    /\ [](\A k \in 1..Len(results) :
            ~IsFail(results[k]) =>
                /\ results[k].hl_equity
                      = MulDiv(StartEquity(k), self.hl_split_pct, 10000)
                /\ results[k].ibkr_equity
                      = MulDiv(StartEquity(k), 100 - self.hl_split_pct, 10000)
                /\ results[k].hl_equity + results[k].ibkr_equity
                      \in {StartEquity(k) \div 100 - 1, StartEquity(k) \div 100})
    /\ [][ (PassesPreTrade /\ shares' # shares) =>
              LET hl   == MulDiv(total_equity, self.hl_split_pct, 10000)
                  ibkr == MulDiv(total_equity, 100 - self.hl_split_pct, 10000)
              IN shares' = MulDiv(Min(hl * 20, MulDiv(ibkr, 66, 10)),
                                  self.safety_factor, 100) \div work[i].price ]_vars

\* the second hour started from a smaller pool: its venue equities are the
\* split of that pool and the position was traded down to its target
C24_SecondHourResplit ==
    /\ Len(results) >= 2
    /\ ~HasFailure(results)
    /\ results[2].hl_equity < results[1].hl_equity
    /\ results[2].ibkr_equity < results[1].ibkr_equity
    /\ results[2].hl_equity + results[2].ibkr_equity
          <= results[1].total_equity \div 100
    /\ results[2].position_usd < results[1].position_usd
    /\ work[2].price = work[1].price

\* shares held after the hour of result row k (0 before the first hour), and
\* the execution cost of that hour
SharesAfter(k) == IF k = 0 THEN 0 ELSE results[k].position_usd \div results[k].price
ExecutionCost(k) ==
    MulDiv(Abs(SharesAfter(k) - SharesAfter(k - 1)) * results[k].price, 12, 100)

\* C25: in every non-failure row, ibkr_loan = max(0, position_usd -
\* ibkr_equity), interest_cost is the tiered interest of that loan,
\* funding_income = position_usd * funding, and total_equity is the
\* total_equity the hour started with, less the hour's execution cost, plus
\* funding_income, less interest_cost.
C25_HourlyAccounting ==
    \A k \in 1..Len(results) :
        ~IsFail(results[k]) =>
            /\ results[k].ibkr_loan
                  = Max(0, results[k].position_usd - results[k].ibkr_equity)
            /\ results[k].interest_cost
                  = TierReference(self.benchmark_rate, results[k].ibkr_loan)
            /\ results[k].funding_income
                  = MulDiv(results[k].position_usd, work[k].funding, 100)
            /\ results[k].total_equity
                  = StartEquity(k) - ExecutionCost(k)
                        + results[k].funding_income - results[k].interest_cost

\* a first hour that paid for its trade and a second hour that kept the
\* position, paid interest on a loan and lost on negative funding
C25_PaidCostInterestAndFunding ==
    /\ Len(results) >= 2
    /\ ~HasFailure(results)
    /\ ExecutionCost(1) > 0
    /\ ExecutionCost(2) = 0
    /\ results[2].ibkr_loan > 0
    /\ results[2].interest_cost > 0
    /\ results[2].funding_income < 0
    /\ results[2].total_equity < results[1].total_equity

\* C26 (as stated): in every non-failure row, total_equity is the sum of the
\* row's hl_equity and ibkr_equity (to the rounding of a USD).
C26_TotalIsSumOfVenues ==
    \A k \in 1..Len(results) :
        ~IsFail(results[k]) =>
            results[k].hl_equity + results[k].ibkr_equity
                \in {results[k].total_equity \div 100 - 1,
                     results[k].total_equity \div 100}

\* C27: an hour whose target, and with it the position notional, is 0 does
\* not fail - the maintenance checks are skipped, and so is the pre-trade
\* check of a venue without equity - and its row records a position of 0, a
\* net_spread_apr of 0 and a breakeven_funding of 0; the pool is unchanged.
C27_ZeroNotionalIsSafe ==
    [][ (AtHour /\ target_of(self, total_equity) = 0) =>
           /\ Len(results') = Len(results) + 1
           /\ ~IsFail(Last(results'))
           /\ Last(results').position_usd = 0
           /\ Last(results').net_spread_apr = 0
           /\ Last(results').breakeven_funding = 0
           /\ shares' = 0
           /\ total_equity' = total_equity ]_vars

\* a run whose HL venue has no equity, at a safety factor above 100%: the
\* hours pass without a position and without a failure
C27_FlatHoursRecorded ==
    /\ pc = "returned"
    /\ self.hl_split_pct = 0
    /\ self.safety_factor > 100
    /\ Len(results) = Len(df)
    /\ Len(results) >= 2
    /\ ~HasFailure(results)
    /\ \A k \in 1..Len(results) :
          /\ results[k].position_usd = 0
          /\ results[k].hl_equity = 0
          /\ results[k].net_spread_apr = 0
          /\ results[k].total_equity = self.capital * 100

\* C28 (as stated): at a safety factor of at most 100% the only failure
\* reason a run produces is 'HL Liquidation (Equity < 5%)'.
C28_OnlyHlLiquidation ==
    self.safety_factor <= 100 =>
        \A k \in 1..Len(results) :
            IsFail(results[k]) =>
                results[k].fail_reason = "HL Liquidation (Equity < 5%)"

\* C29 (as stated): at a safety factor of at most 100%, every non-failure
\* row has position_usd <= 6.6 * ibkr_equity and position_usd <= 20 *
\* hl_equity.
C29_LeverageWithinCaps ==
    self.safety_factor <= 100 =>
        \A k \in 1..Len(results) :
            ~IsFail(results[k]) =>
                /\ 10 * results[k].position_usd <= 66 * results[k].ibkr_equity
                /\ results[k].position_usd <= 20 * results[k].hl_equity

\* C30: after the execution step of every hour that passes the pre-trade
\* checks with a positive target, the position notional shares * price is
\* within 10% of the hour's target notional.
C30_PositionWithinDriftBand ==
    [][ (PassesPreTrade /\ target_of(self, total_equity) > 0) =>
           100 * Abs(shares' * work[i].price - target_of(self, total_equity))
               <= 10 * target_of(self, total_equity) ]_vars

\* a second hour at a lower price that kept the first hour's shares: its
\* position is below its target, inside the band
C30_DriftedInsideBand ==
    /\ Len(results) >= 2
    /\ ~HasFailure(results)
    /\ work[2].price < work[1].price
    /\ SharesAfter(2) = SharesAfter(1)
    /\ results[2].position_usd < target_of(self, results[1].total_equity)
    /\ 100 * (target_of(self, results[1].total_equity) - results[2].position_usd)
          > 5 * target_of(self, results[1].total_equity)

====
